---- MODULE Spec2Model ----
(***************************************************************************)
(* Ledger consistency engine of the finance tracking backend.              *)
(*                                                                         *)
(* The committed database (accounts, transactions) is shared; every        *)
(* request runs in its own SQLAlchemy session (database.py get_db) with    *)
(* its own identity map and its own uncommitted writes.  A request is a    *)
(* sequence of steps, one per database round trip that reads committed     *)
(* data or commits;  sessions interleave between steps.                     *)
(*                                                                         *)
(* Balances and amounts are Python floats.  They are modelled as integer   *)
(* multiples of one quantum, and every arithmetic result is rounded to     *)
(* MantBits significant bits, round-half-to-even, as IEEE-754 does with    *)
(* 53 bits.                                                                *)
(***************************************************************************)
EXTENDS Integers, Sequences, FiniteSets, TLC

\* ---------------------------------------------------------------- bounds
MaxOps == 2            \* requests begun on the opened ledger
MaxAccounts == 4       \* accounts ever created
MantBits == 3          \* significant bits of the scaled-down float format

Users == {1, 2}
Sessions == {"s1", "s2"}
\* the ledger once its accounts are opened (create_user_account): account
\* id -> opening balance, 0 being AccountBase's default
Opened == <<0, 1, 0>>
AccountIds == 1..MaxAccounts
Amounts == {1, 8}
OpeningBalances == {0, 1}

\* ------------------------------------------------------------ data model
ValidTypes == {"income", "expense"}
\* "transfer" stands for any string that is neither income nor expense
Types == ValidTypes \cup {"transfer"}

\* Optional[float]: None is <<>>, a value v is <<v>>
None == <<>>
Some(v) == <<v>>
OptAmounts == {None} \cup {Some(a) : a \in Amounts}

\* account_id = None (NULL foreign key)
NoAccount == 0

\* category_id = None (the category of a transaction is optional)
NoCategory == 0

Fields == {"amount", "type", "account_id", "category_id", "description"}

NoTxn == [amount |-> None, type |-> "", account_id |-> NoAccount,
          category_id |-> NoCategory, user_id |-> 0, description |-> ""]

\* the body of a category or budget request: schemas.CategoryBase has name
\* and type, a budget has category_id and amount
NoItem == [name |-> "", type |-> "", category_id |-> NoCategory, amount |-> 0]

\* the query parameters of a listing
NoQuery == [skip |-> 0, lim |-> 0, type_filter |-> None]

\* crud.py get_categories: limit: int = 100
DefaultLimit == 100

\* main.py lines 317-324: a listing of transactions with no filter, the
\* default skip and limit and the default order; the rows have no date and
\* sort_by names their id
NoFilter == [skip |-> 0, lim |-> DefaultLimit,
             category_id |-> None, transaction_type |-> None,
             order |-> "desc"]

VARIABLES
    accounts,       \* committed accounts table: id -> [balance, owner_id]
    transactions,   \* committed transactions table: id -> row
    accSeq,         \* last id handed out by accounts.id
    txnSeq,         \* last id handed out by transactions.id
    sess,           \* per request session: position, ORM objects, locals
    pre,            \* per session: committed tables when its request began
    ops,            \* requests begun so far
    limit,          \* requests a behaviour may begin
    users,          \* ids of the registered users (users table)
    categories,     \* committed categories table: id -> [name, type]
    catSeq,         \* last id handed out by categories.id
    budgets,        \* committed budgets table: id -> row
    budSeq          \* last id handed out by budgets.id

\* the tables the ledger refers to: registered users, categories, budgets
catalog == <<users, categories, catSeq, budgets, budSeq>>

vars == <<accounts, transactions, accSeq, txnSeq, sess, pre, ops, limit,
          users, categories, catSeq, budgets, budSeq>>

\* ------------------------------------------------------ float arithmetic
RECURSIVE Pow2(_)
Pow2(n) == IF n = 0 THEN 1 ELSE 2 * Pow2(n - 1)

RECURSIVE UlpFrom(_, _)
UlpFrom(a, u) == IF a < Pow2(MantBits) * u THEN u ELSE UlpFrom(a, 2 * u)

\* spacing of the floats around magnitude a (a >= 0)
Ulp(a) == UlpFrom(a, 1)

RoundNat(a) ==
    LET u == Ulp(a)
        q == a \div u
        r == a % u
    IN  IF 2 * r < u THEN q * u
        ELSE IF 2 * r > u THEN (q + 1) * u
        ELSE IF q % 2 = 0 THEN q * u ELSE (q + 1) * u

Round(x) == IF x >= 0 THEN RoundNat(x) ELSE 0 - RoundNat(0 - x)

FAdd(a, b) == Round(a + b)
FSub(a, b) == Round(a - b)


\* ------------------------------------------------------------- sessions
NoCache == [a \in AccountIds |-> None]

IdleSession ==
    [pc |-> "idle", op |-> "", caller |-> 0, user |-> 0, tid |-> 0,
     obj |-> NoTxn,
     old |-> NoTxn, dirty |-> {}, pending |-> "none", cache |-> NoCache,
     adjusted |-> 0, seq |-> 0, result |-> "", error |-> "", at |-> "",
     target |-> 0, rows |-> {}, item |-> NoItem, query |-> NoQuery]

InFlight ==
    {"c_flush", "c_adj_query", "c_adj_write", "c_commit",
     "u_rev_query", "u_rev_write", "u_app_query", "u_app_write", "u_commit",
     "d_rev_query", "d_rev_write", "d_delete",
     "a_cascade", "a_delete",
     "k_insert", "k_update", "k_delete",
     "b_insert", "b_update", "b_delete"}

Free(s) == sess[s].pc \notin InFlight

Snapshot == [accounts |-> accounts, transactions |-> transactions,
             categories |-> categories, budgets |-> budgets]

\* The session record once the request is over: the request's locals that
\* describe what it did are kept (adjusted counts the balance adjustments
\* it committed, seq is its place among the requests), its objects are gone.
Closed(se, pc, result, error) ==
    [IdleSession EXCEPT !.pc = pc, !.op = se.op, !.caller = se.caller,
                        !.user = se.user,
                        !.tid = se.tid, !.obj = se.obj, !.old = se.old,
                        !.adjusted = se.adjusted, !.seq = se.seq,
                        !.result = result, !.error = error, !.at = se.pc,
                        !.target = se.target, !.rows = se.rows,
                        !.item = se.item, !.query = se.query]

\* a lookup by id alone
GetAccountUnscoped(aid, u) == aid \in DOMAIN accounts

\* get_account(db, account_id, user_id): the lookup is scoped by owner
GetAccount(aid, u) ==
    aid \in DOMAIN accounts /\ accounts[aid].owner_id = u

\* get_transaction(db, transaction_id, user_id)
GetTransaction(tid, u) ==
    tid \in DOMAIN transactions /\ transactions[tid].user_id = u

\* An object the session already holds keeps its loaded attributes when a
\* query returns its row again; only an absent (or expired) one is read.
Loaded(cache, aid) ==
    IF cache[aid] # None THEN cache
    ELSE [cache EXCEPT ![aid] = Some(accounts[aid].balance)]

\* ------------------------------------------------- balance adjustment
\* an adjustment that takes every type but income for an expense
AdjustedLenient(bal, amount, type) ==
    IF amount = None THEN [error |-> "TypeError", balance |-> bal]
    ELSE IF type = "income"
        THEN [error |-> "", balance |-> FAdd(bal, amount[1])]
        ELSE [error |-> "", balance |-> FSub(bal, amount[1])]

\* balance after _adjust_account_balance's if/elif/else, or the exception
Adjusted(bal, amount, type) ==
    IF type = "income" THEN
        IF amount = None THEN [error |-> "TypeError", balance |-> bal]
        ELSE [error |-> "", balance |-> FAdd(bal, amount[1])]
    ELSE IF type = "expense" THEN
        IF amount = None THEN [error |-> "TypeError", balance |-> bal]
        ELSE [error |-> "", balance |-> FSub(bal, amount[1])]
    ELSE [error |-> "ValueError", balance |-> bal]

\* a reversal that applies the delta again instead of taking it back
ReverseTypeKept(type) == type

ReverseType(type) == IF type = "income" THEN "expense" ELSE "income"

\* the columns of the pending UPDATE are the attributes that changed
Merged(row, obj, dirty) ==
    [f \in DOMAIN row |-> IF f \in dirty THEN obj[f] ELSE row[f]]

\* the exception a flush of the session's pending row raises, "" if none
FlushError(se) ==
    IF se.pending = "update" /\ se.tid \notin DOMAIN transactions
        THEN "StaleDataError"
    ELSE IF se.pending = "update" /\ "account_id" \in se.dirty
            /\ se.obj.account_id # NoAccount
            /\ se.obj.account_id \notin DOMAIN accounts
        THEN "IntegrityError"
    ELSE IF se.pending = "update" /\ "category_id" \in se.dirty
            /\ se.obj.category_id # NoCategory
            /\ se.obj.category_id \notin DOMAIN categories
        THEN "IntegrityError"
    ELSE ""

\* the transactions table once the session's pending row is committed
Flushed(se) ==
    IF se.pending = "insert" THEN (se.tid :> se.obj) @@ transactions
    ELSE IF se.pending = "update"
        THEN [transactions EXCEPT
                 ![se.tid] = Merged(transactions[se.tid], se.obj, se.dirty)]
    ELSE transactions

\* a close() that commits what the session holds instead of dropping it
ClosedCommitting(se) == Flushed(se)

\* the transactions table after db.close() on a session that did not reach
\* its commit: close() rolls the open transaction back
ClosedUncommitted(se) == transactions

\* an exception leaves the handler: get_db's finally closes the session
Raise(s, error) ==
    /\ sess' = [sess EXCEPT ![s] = Closed(sess[s], "failed", "500", error)]
    /\ transactions' = ClosedUncommitted(sess[s])
    /\ UNCHANGED <<accounts, accSeq, txnSeq, pre, ops, limit, catalog>>

Finish(s, result) ==
    sess' = [sess EXCEPT ![s] = Closed(sess[s], "done", result, "")]

\* _adjust_account_balance line 126: db.query(Account).filter(...).first()
AdjustQuery(s, aid, found, missing) ==
    /\ IF aid \in DOMAIN accounts
         THEN sess' = [sess EXCEPT ![s].pc = found,
                                   ![s].cache = Loaded(sess[s].cache, aid)]
         ELSE sess' = [sess EXCEPT ![s].pc = missing]
    /\ UNCHANGED <<accounts, transactions, accSeq, txnSeq, pre, ops, limit, catalog>>

\* _adjust_account_balance lines 127-138: the arithmetic on the loaded
\* object, then db.commit(), which flushes everything the session holds
AdjustWrite(s, aid, amount, type, next) ==
    LET se == sess[s]
        r  == Adjusted(se.cache[aid][1], amount, type)
    IN  IF r.error # "" THEN Raise(s, r.error)
        ELSE IF aid \notin DOMAIN accounts THEN Raise(s, "StaleDataError")
        ELSE IF FlushError(se) # "" THEN Raise(s, FlushError(se))
        ELSE /\ accounts' = [accounts EXCEPT ![aid].balance = r.balance]
             /\ transactions' = Flushed(se)
             /\ sess' = [sess EXCEPT ![s].pc = next,
                                     ![s].adjusted = @ + 1,
                                     ![s].pending = "none",
                                     ![s].dirty = {},
                                     ![s].cache = NoCache]
             /\ UNCHANGED <<accSeq, txnSeq, pre, ops, limit, catalog>>

\* a bare db.commit() followed by db.refresh(db_transaction)
CommitAndRefresh(s, result) ==
    LET se == sess[s]
    IN  IF FlushError(se) # "" THEN Raise(s, FlushError(se))
        ELSE /\ transactions' = Flushed(se)
             /\ IF se.tid \in DOMAIN Flushed(se)
                  THEN Finish(s, result)
                  ELSE sess' = [sess EXCEPT ![s] =
                          Closed(se, "failed", "500", "InvalidRequestError")]
             /\ UNCHANGED <<accounts, accSeq, txnSeq, pre, ops, limit, catalog>>


\* ------------------------------------------------------------- requests
\* ids a request may name: the rows ever created and one id never used
NamedAccounts == 1..(IF accSeq < MaxAccounts THEN accSeq + 1 ELSE MaxAccounts)
NamedTxns == 1..(txnSeq + 1)
NamedCategories == 1..(catSeq + 1)

\* a lookup that finds a category under every id
GetCategoryAny(cid) == TRUE

\* get_category(db, category_id)
GetCategory(cid) == cid \in DOMAIN categories

\* schemas.TransactionCreate (amount and type are required)
CreateRequests ==
    [amount : {Some(a) : a \in Amounts}, type : Types,
     account_id : NamedAccounts,
     category_id : {NoCategory} \cup NamedCategories, description : {"a"}]

\* schemas.TransactionUpdate after model_dump(exclude_unset=True): keys are
\* the fields the request set; a field it did not set carries a filler
Choice(field, values, filler) ==
    {[keys |-> {}, value |-> filler]}
        \cup {[keys |-> {field}, value |-> v] : v \in values}

UpdateRequests ==
    {[keys |-> a.keys \cup t.keys \cup c.keys \cup k.keys \cup d.keys,
      amount |-> a.value, type |-> t.value, account_id |-> c.value,
      category_id |-> k.value, description |-> d.value] :
        a \in Choice("amount", OptAmounts, None),
        t \in Choice("type", Types, "income"),
        c \in Choice("account_id", {NoAccount} \cup NamedAccounts, NoAccount),
        k \in Choice("category_id", {NoCategory} \cup NamedCategories,
                     NoCategory),
        d \in Choice("description", {"b"}, "a")}

Begun(s, op, u, tid, obj) ==
    [IdleSession EXCEPT !.op = op, !.caller = u, !.user = u, !.tid = tid,
                        !.obj = obj, !.seq = ops + 1]

StartRequest(s) ==
    /\ Free(s)
    /\ ops < limit
    /\ ops' = ops + 1
    /\ pre' = [pre EXCEPT ![s] = Snapshot]

\* a dump that does not exclude the unset fields
UpdatedAll(row, r) ==
    [f \in DOMAIN row |-> IF f \in Fields THEN r[f] ELSE row[f]]

\* update_transaction lines 211-213: setattr for every field that was set
Updated(row, r) ==
    [f \in DOMAIN row |-> IF f \in r.keys THEN r[f] ELSE row[f]]

\* every field that was set counts as changed
ChangedSet(row, r) == r.keys

Changed(row, r) == {f \in r.keys : r[f] # row[f]}

\* a reconciliation that runs on every update
ReconcilesAlways(old, new) == TRUE

\* update_transaction lines 220 and 224: is any balance adjusted?
Reconciles(old, new) ==
    \/ old.account_id # new.account_id
    \/ old.amount # new.amount
    \/ old.type # new.type

\* ---- POST /users/{user_id}/transactions/ --------------------------------
\* main.py lines 283-293: the account lookup loads the Account object
BeginCreate(s, u, r) ==
    /\ StartRequest(s)
    /\ LET obj == [amount |-> r.amount, type |-> r.type,
                   account_id |-> r.account_id,
                   category_id |-> r.category_id, user_id |-> u,
                   description |-> r.description]
           b   == Begun(s, "create", u, 0, obj)
       IN  IF ~GetAccount(r.account_id, u)
             THEN sess' = [sess EXCEPT ![s] = Closed(b, "done", "404", "")]
           ELSE IF r.category_id # NoCategory /\ ~GetCategory(r.category_id)
             THEN sess' = [sess EXCEPT ![s] = Closed(b, "done", "404", "")]
             ELSE sess' = [sess EXCEPT ![s] =
                     [b EXCEPT !.pc = "c_flush",
                               !.cache = Loaded(NoCache, r.account_id)]]
    /\ UNCHANGED <<accounts, transactions, accSeq, txnSeq, limit, catalog>>

\* crud.py lines 142-149: db.add, db.flush: the INSERT runs in the
\* session's open transaction and takes the next id of the sequence
CreateFlush(s) ==
    /\ sess[s].pc = "c_flush"
    /\ txnSeq' = txnSeq + 1
    /\ IF \/ sess[s].obj.account_id \notin DOMAIN accounts
          \/ /\ sess[s].obj.category_id # NoCategory
             /\ sess[s].obj.category_id \notin DOMAIN categories
         THEN /\ sess' = [sess EXCEPT ![s] =
                     Closed(sess[s], "failed", "500", "IntegrityError")]
              /\ transactions' = ClosedUncommitted(sess[s])
         ELSE /\ sess' = [sess EXCEPT ![s].pc = "c_adj_query",
                                      ![s].tid = txnSeq + 1,
                                      ![s].pending = "insert"]
              /\ UNCHANGED transactions
    /\ UNCHANGED <<accounts, accSeq, pre, ops, limit, catalog>>

\* crud.py line 152
CreateAdjustQuery(s) ==
    /\ sess[s].pc = "c_adj_query"
    /\ AdjustQuery(s, sess[s].obj.account_id, "c_adj_write", "c_commit")

CreateAdjustWrite(s) ==
    /\ sess[s].pc = "c_adj_write"
    /\ AdjustWrite(s, sess[s].obj.account_id, sess[s].obj.amount,
                   sess[s].obj.type, "c_commit")

\* crud.py lines 154-156
CreateCommit(s) ==
    /\ sess[s].pc = "c_commit"
    /\ CommitAndRefresh(s, "201")


\* ---- PUT /users/{user_id}/transactions/{transaction_id} -----------------
\* main.py lines 364-378, then crud.py lines 207-218: the lookups, the old
\* values, setattr of the set fields, the new values
BeginUpdate(s, u, tid, r) ==
    /\ StartRequest(s)
    /\ IF ~GetTransaction(tid, u)
         THEN sess' = [sess EXCEPT ![s] =
                 Closed(Begun(s, "update", u, tid, NoTxn), "done", "404", "")]
         ELSE
           LET row   == transactions[tid]
               moved == /\ "account_id" \in r.keys
                        /\ r.account_id # NoAccount
                        /\ r.account_id # row.account_id
               b     == [Begun(s, "update", u, tid, Updated(row, r))
                            EXCEPT !.old = row]
               named == /\ "category_id" \in r.keys
                        /\ r.category_id # NoCategory
           IN  IF moved /\ ~GetAccount(r.account_id, u)
                 THEN sess' = [sess EXCEPT ![s] =
                         Closed([b EXCEPT !.obj = row], "done", "400", "")]
               ELSE IF named /\ ~GetCategory(r.category_id)
                 THEN sess' = [sess EXCEPT ![s] =
                         Closed([b EXCEPT !.obj = row], "done", "400", "")]
                 ELSE sess' = [sess EXCEPT ![s] =
                         [b EXCEPT
                            !.pc = IF Reconciles(row, Updated(row, r))
                                     THEN "u_rev_query" ELSE "u_commit",
                            !.dirty = Changed(row, r),
                            !.pending = IF Changed(row, r) = {}
                                          THEN "none" ELSE "update",
                            !.cache = IF moved
                                        THEN Loaded(NoCache, r.account_id)
                                        ELSE NoCache]]
    /\ UNCHANGED <<accounts, transactions, accSeq, txnSeq, limit, catalog>>

\* crud.py lines 221-222 and 225-226: the old delta is taken back
UpdateReverseQuery(s) ==
    /\ sess[s].pc = "u_rev_query"
    /\ AdjustQuery(s, sess[s].old.account_id, "u_rev_write", "u_app_query")

UpdateReverseWrite(s) ==
    /\ sess[s].pc = "u_rev_write"
    /\ AdjustWrite(s, sess[s].old.account_id, sess[s].old.amount,
                   ReverseType(sess[s].old.type), "u_app_query")

\* crud.py lines 223 and 227: the new delta is applied
UpdateApplyQuery(s) ==
    /\ sess[s].pc = "u_app_query"
    /\ AdjustQuery(s, sess[s].obj.account_id, "u_app_write", "u_commit")

UpdateApplyWrite(s) ==
    /\ sess[s].pc = "u_app_write"
    /\ AdjustWrite(s, sess[s].obj.account_id, sess[s].obj.amount,
                   sess[s].obj.type, "u_commit")

\* crud.py lines 229-231
UpdateCommit(s) ==
    /\ sess[s].pc = "u_commit"
    /\ CommitAndRefresh(s, "200")

\* ---- DELETE /users/{user_id}/transactions/{transaction_id} --------------
\* main.py lines 396-398
BeginDelete(s, u, tid) ==
    /\ StartRequest(s)
    /\ IF ~GetTransaction(tid, u)
         THEN sess' = [sess EXCEPT ![s] =
                 Closed(Begun(s, "delete", u, tid, NoTxn), "done", "404", "")]
         ELSE sess' = [sess EXCEPT ![s] =
                 [Begun(s, "delete", u, tid, transactions[tid])
                    EXCEPT !.pc = "d_rev_query", !.old = transactions[tid]]]
    /\ UNCHANGED <<accounts, transactions, accSeq, txnSeq, limit, catalog>>

\* crud.py lines 234-235
DeleteReverseQuery(s) ==
    /\ sess[s].pc = "d_rev_query"
    /\ AdjustQuery(s, sess[s].obj.account_id, "d_rev_write", "d_delete")

DeleteReverseWrite(s) ==
    /\ sess[s].pc = "d_rev_write"
    /\ AdjustWrite(s, sess[s].obj.account_id, sess[s].obj.amount,
                   ReverseType(sess[s].obj.type), "d_delete")

\* crud.py lines 236-237: DELETE of the row (a row already gone is only a
\* warning), commit
DeleteRow(s) ==
    /\ sess[s].pc = "d_delete"
    /\ transactions' = [t \in DOMAIN transactions \ {sess[s].tid} |->
                           transactions[t]]
    /\ Finish(s, "204")
    /\ UNCHANGED <<accounts, accSeq, txnSeq, pre, ops, limit, catalog>>

\* ---- access control -----------------------------------------------------
\* the check every owner-scoped handler starts with:
\* if user_id != current_user.id: raise HTTPException(403)
Forbidden(s, op, c, u) ==
    /\ StartRequest(s)
    /\ sess' = [sess EXCEPT ![s] =
            Closed([Begun(s, op, u, 0, NoTxn) EXCEPT !.caller = c],
                   "done", "403", "")]
    /\ UNCHANGED <<accounts, transactions, accSeq, txnSeq, limit, catalog>>

\* the request is answered from what it read: nothing is written
Answer(s, op, u, id, result, rows) ==
    /\ StartRequest(s)
    /\ sess' = [sess EXCEPT ![s] =
            Closed([Begun(s, op, u, 0, NoTxn)
                       EXCEPT !.target = id, !.rows = rows],
                   "done", result, "")]
    /\ UNCHANGED <<accounts, transactions, accSeq, txnSeq, limit, catalog>>

\* ---- accounts -----------------------------------------------------------
\* crud.py create_user_account: the row is stored with the balance given
CreateAccount(s, u, balance) ==
    /\ StartRequest(s)
    /\ accSeq < MaxAccounts
    /\ accSeq' = accSeq + 1
    /\ accounts' = (accSeq + 1 :> [balance |-> balance, owner_id |-> u])
                      @@ accounts
    /\ sess' = [sess EXCEPT ![s] =
            Closed([Begun(s, "create_account", u, 0, NoTxn)
                       EXCEPT !.target = accSeq + 1],
                   "done", "201", "")]
    /\ UNCHANGED <<transactions, txnSeq, limit, catalog>>

\* crud.py get_accounts with the default skip and limit
GetAccounts(u) == {a \in DOMAIN accounts : accounts[a].owner_id = u}

\* main.py lines 127-128
ReadAccounts(s, u) == Answer(s, "read_accounts", u, 0, "200", GetAccounts(u))

\* main.py lines 144-147
ReadAccount(s, u, aid) ==
    IF GetAccount(aid, u)
        THEN Answer(s, "read_account", u, aid, "200", {aid})
        ELSE Answer(s, "read_account", u, aid, "404", {})

\* main.py lines 164-167 and crud.py update_account with balance set
UpdateAccount(s, u, aid, balance) ==
    IF ~GetAccount(aid, u)
        THEN Answer(s, "update_account", u, aid, "404", {})
        ELSE /\ StartRequest(s)
             /\ accounts' = [accounts EXCEPT ![aid].balance = balance]
             /\ sess' = [sess EXCEPT ![s] =
                     Closed([Begun(s, "update_account", u, 0, NoTxn)
                                EXCEPT !.target = aid],
                            "done", "200", "")]
             /\ UNCHANGED <<transactions, accSeq, txnSeq, limit, catalog>>

\* main.py lines 183-185
BeginDeleteAccount(s, u, aid) ==
    IF ~GetAccount(aid, u)
        THEN Answer(s, "delete_account", u, aid, "404", {})
        ELSE /\ StartRequest(s)
             /\ sess' = [sess EXCEPT ![s] =
                     [Begun(s, "delete_account", u, 0, NoTxn)
                         EXCEPT !.pc = "a_cascade", !.target = aid]]
             /\ UNCHANGED <<accounts, transactions, accSeq, txnSeq, limit,
                            catalog>>

\* a relationship that loads no transaction
OfAccountNone(aid) == {}

\* transactions that reference account aid
OfAccount(aid) ==
    {t \in DOMAIN transactions : transactions[t].account_id = aid}

\* crud.py line 69: db.delete cascades over Account.transactions
\* (cascade="all, delete-orphan"), which loads the collection
DeleteAccountCascade(s) ==
    /\ sess[s].pc = "a_cascade"
    /\ sess' = [sess EXCEPT ![s].pc = "a_delete",
                            ![s].rows = OfAccount(sess[s].target)]
    /\ UNCHANGED <<accounts, transactions, accSeq, txnSeq, pre, ops, limit,
                   catalog>>

\* another session's open transaction has inserted a row that references
\* account aid: the foreign key holds a lock on the account's row
KeyLocked(s, aid) ==
    \E o \in Sessions \ {s} :
        /\ sess[o].pending = "insert"
        /\ sess[o].obj.account_id = aid

\* crud.py line 70: the flush deletes the loaded transactions and the
\* account, then commits.  The DELETE of the account waits for a lock on
\* its row and fails on a transaction that references it and was not loaded.
DeleteAccountRows(s) ==
    LET aid == sess[s].target
    IN  /\ sess[s].pc = "a_delete"
        /\ ~KeyLocked(s, aid)
        /\ IF OfAccount(aid) \ sess[s].rows # {}
             THEN Raise(s, "IntegrityError")
             ELSE /\ transactions' =
                        [t \in DOMAIN transactions \ sess[s].rows |->
                            transactions[t]]
                  /\ accounts' = [a \in DOMAIN accounts \ {aid} |->
                                     accounts[a]]
                  /\ Finish(s, "204")
                  /\ UNCHANGED <<accSeq, txnSeq, pre, ops, limit, catalog>>

\* ---- transactions: reads -------------------------------------------------
\* main.py lines 309-312
ReadTransaction(s, u, tid) ==
    IF GetTransaction(tid, u)
        THEN Answer(s, "read_transaction", u, tid, "200", {tid})
        ELSE Answer(s, "read_transaction", u, tid, "404", {})

\* the ids of S in ascending order
RECURSIVE Ascending(_)
Ascending(S) ==
    IF S = {} THEN <<>>
    ELSE LET m == CHOOSE x \in S : \A y \in S : x <= y
         IN  <<m>> \o Ascending(S \ {m})

\* query.offset(skip).limit(limit)
Page(rows, skip, lim) ==
    LET last == IF skip + lim < Len(rows) THEN skip + lim ELSE Len(rows)
    IN  SubSeq(rows, skip + 1, last)

\* Python's truth value of an Optional[str]: None and "" are false
Truthy(f) == f # None /\ f[1] # ""

\* Python's truth value of an Optional[int]: None and 0 are false
TruthyInt(f) == f # None /\ f[1] # 0

\* the ids of S in descending order
RECURSIVE Descending(_)
Descending(S) ==
    IF S = {} THEN <<>>
    ELSE LET m == CHOOSE x \in S : \A y \in S : x >= y
         IN  <<m>> \o Descending(S \ {m})

\* crud.py get_transactions, sorted by id: the filter on user_id, the
\* filters on category_id and type under `if category_id:` and
\* `if transaction_type:` (a NULL category_id equals no value), the order
\* and offset(skip).limit(limit)
GetTransactions(u, q) ==
    LET owned  == {t \in DOMAIN transactions : transactions[t].user_id = u}
        byCat  == IF TruthyInt(q.category_id)
                    THEN {t \in owned :
                            /\ transactions[t].category_id # NoCategory
                            /\ transactions[t].category_id
                                  = q.category_id[1]}
                    ELSE owned
        byType == IF Truthy(q.transaction_type)
                    THEN {t \in byCat :
                            transactions[t].type = q.transaction_type[1]}
                    ELSE byCat
        sorted == IF q.order = "asc" THEN Ascending(byType)
                                     ELSE Descending(byType)
    IN  Page(sorted, q.skip, q.lim)

\* main.py lines 335-347: the rows of the answer and the query parameters
ReadTransactions(s, u, q) ==
    /\ StartRequest(s)
    /\ LET page == GetTransactions(u, q)
       IN  sess' = [sess EXCEPT ![s] =
               Closed([Begun(s, "read_transactions", u, 0, NoTxn)
                          EXCEPT !.rows = {page[i] : i \in DOMAIN page},
                                 !.query = q],
                      "done", "200", "")]
    /\ UNCHANGED <<accounts, transactions, accSeq, txnSeq, limit, catalog>>

\* ---- the handlers as the authenticated caller c reaches them -------------
\* main.py lines 106-110
CreateAccountApi(s, c, u, balance) ==
    IF u # c THEN Forbidden(s, "create_account", c, u)
    ELSE CreateAccount(s, u, balance)

\* main.py lines 124-128
ReadAccountsApi(s, c, u) ==
    IF u # c THEN Forbidden(s, "read_accounts", c, u) ELSE ReadAccounts(s, u)

\* main.py lines 141-147
ReadAccountApi(s, c, u, aid) ==
    IF u # c THEN Forbidden(s, "read_account", c, u)
    ELSE ReadAccount(s, u, aid)

\* main.py lines 161-167
UpdateAccountApi(s, c, u, aid, balance) ==
    IF u # c THEN Forbidden(s, "update_account", c, u)
    ELSE UpdateAccount(s, u, aid, balance)

\* main.py lines 180-186
DeleteAccountApi(s, c, u, aid) ==
    IF u # c THEN Forbidden(s, "delete_account", c, u)
    ELSE BeginDeleteAccount(s, u, aid)

\* main.py lines 280-293
CreateTransactionApi(s, c, u, r) ==
    IF u # c THEN Forbidden(s, "create", c, u) ELSE BeginCreate(s, u, r)

\* main.py lines 306-312
ReadTransactionApi(s, c, u, tid) ==
    IF u # c THEN Forbidden(s, "read_transaction", c, u)
    ELSE ReadTransaction(s, u, tid)

\* main.py lines 332-347
ReadTransactionsApi(s, c, u, q) ==
    IF u # c THEN Forbidden(s, "read_transactions", c, u)
    ELSE ReadTransactions(s, u, q)

\* main.py lines 361-380
UpdateTransactionApi(s, c, u, tid, r) ==
    IF u # c THEN Forbidden(s, "update", c, u) ELSE BeginUpdate(s, u, tid, r)

\* the handler without its check of the path user id
DeleteTransactionUnchecked(s, c, u, tid) == BeginDelete(s, u, tid)

\* main.py lines 393-400
DeleteTransactionApi(s, c, u, tid) ==
    IF u # c THEN Forbidden(s, "delete", c, u) ELSE BeginDelete(s, u, tid)

\* ---- categories ---------------------------------------------------------
CategoryNames == {"Rent", "Transfer"}
CategoryTypes == {"income", "expense", "both"}

\* schemas.CategoryCreate
CategoryCreates == [name : CategoryNames, type : CategoryTypes]

\* schemas.CategoryUpdate after model_dump(exclude_unset=True)
CategoryUpdates ==
    {[keys |-> n.keys \cup t.keys, name |-> n.value, type |-> t.value] :
        n \in Choice("name", CategoryNames, ""),
        t \in Choice("type", CategoryTypes, "")}

\* a lookup by name alone
CategoryNamedAnyType(name, type) ==
    {k \in DOMAIN categories : categories[k].name = name}

\* crud.py lines 77-80: the category with this name and this type, if any
CategoryNamed(name, type) ==
    {k \in DOMAIN categories :
        categories[k].name = name /\ categories[k].type = type}

\* the request starts, holding its body and the id it named
Held(s, op, u, id, item, pc) ==
    /\ StartRequest(s)
    /\ sess' = [sess EXCEPT ![s] =
            [Begun(s, op, u, 0, NoTxn)
                EXCEPT !.pc = pc, !.target = id, !.item = item]]
    /\ UNCHANGED <<accounts, transactions, accSeq, txnSeq, limit, catalog>>

\* main.py lines 200-202 and crud.py lines 77-82: the lookup; a category
\* with the same name and type makes create_category return None
BeginCreateCategory(s, c, r) ==
    IF CategoryNamed(r.name, r.type) # {}
        THEN /\ StartRequest(s)
             /\ sess' = [sess EXCEPT ![s] =
                     Closed([Begun(s, "create_category", c, 0, NoTxn)
                                EXCEPT !.item = [NoItem EXCEPT
                                                   !.name = r.name,
                                                   !.type = r.type]],
                            "done", "400", "")]
             /\ UNCHANGED <<accounts, transactions, accSeq, txnSeq, limit,
                            catalog>>
        ELSE Held(s, "create_category", c, 0,
                  [NoItem EXCEPT !.name = r.name, !.type = r.type],
                  "k_insert")

\* crud.py lines 83-87: db.add, db.commit, db.refresh
CategoryInsert(s) ==
    /\ sess[s].pc = "k_insert"
    /\ catSeq' = catSeq + 1
    /\ categories' = (catSeq + 1 :> [name |-> sess[s].item.name,
                                     type |-> sess[s].item.type])
                        @@ categories
    /\ sess' = [sess EXCEPT ![s] =
            Closed([sess[s] EXCEPT !.target = catSeq + 1], "done", "201", "")]
    /\ UNCHANGED <<accounts, transactions, accSeq, txnSeq, pre, ops, limit,
                   users, budgets, budSeq>>

\* main.py lines 215-218
ReadCategory(s, c, cid) ==
    IF GetCategory(cid)
        THEN Answer(s, "read_category", c, cid, "200", {cid})
        ELSE Answer(s, "read_category", c, cid, "404", {})

\* a listing whose filter matches the type alone
GetCategoriesExact(skip, lim, type_filter) ==
    LET matched ==
            IF Truthy(type_filter)
              THEN {k \in DOMAIN categories :
                        categories[k].type = type_filter[1]}
              ELSE DOMAIN categories
    IN  Page(Ascending(matched), skip, lim)

\* crud.py get_categories
GetCategories(skip, lim, type_filter) ==
    LET matched ==
            IF Truthy(type_filter)
              THEN {k \in DOMAIN categories :
                        \/ categories[k].type = type_filter[1]
                        \/ categories[k].type = "both"}
              ELSE DOMAIN categories
    IN  Page(Ascending(matched), skip, lim)

\* main.py lines 233-234: the rows of the answer and the query parameters
ReadCategories(s, c, skip, lim, f) ==
    /\ StartRequest(s)
    /\ LET page == GetCategories(skip, lim, f)
       IN  sess' = [sess EXCEPT ![s] =
               Closed([Begun(s, "read_categories", c, 0, NoTxn)
                          EXCEPT !.rows = {page[i] : i \in DOMAIN page},
                                 !.query = [skip |-> skip, lim |-> lim,
                                            type_filter |-> f]],
                      "done", "200", "")]
    /\ UNCHANGED <<accounts, transactions, accSeq, txnSeq, limit, catalog>>

\* main.py lines 247-249, crud.py lines 111-113: the lookup and setattr
BeginUpdateCategory(s, c, cid, r) ==
    IF ~GetCategory(cid)
        THEN Answer(s, "update_category", c, cid, "404", {})
        ELSE /\ StartRequest(s)
             /\ sess' = [sess EXCEPT ![s] =
                     [Begun(s, "update_category", c, 0, NoTxn)
                         EXCEPT !.pc = "k_update", !.target = cid,
                                !.item = [NoItem EXCEPT
                                            !.name = r.name, !.type = r.type],
                                !.dirty = Changed(categories[cid], r)]]
             /\ UNCHANGED <<accounts, transactions, accSeq, txnSeq, limit,
                            catalog>>

\* crud.py lines 114-117: the UPDATE of the changed columns, commit, refresh
CategoryUpdateRow(s) ==
    LET cid == sess[s].target
    IN  /\ sess[s].pc = "k_update"
        /\ IF cid \notin DOMAIN categories
             THEN Raise(s, IF sess[s].dirty = {} THEN "InvalidRequestError"
                           ELSE "StaleDataError")
             ELSE /\ categories' =
                        [categories EXCEPT
                            ![cid] = Merged(categories[cid], sess[s].item,
                                            sess[s].dirty)]
                  /\ Finish(s, "200")
                  /\ UNCHANGED <<accounts, transactions, accSeq, txnSeq, pre,
                                 ops, limit, users, catSeq, budgets, budSeq>>

\* main.py lines 262-264
BeginDeleteCategory(s, c, cid) ==
    IF ~GetCategory(cid)
        THEN Answer(s, "delete_category", c, cid, "404", {})
        ELSE Held(s, "delete_category", c, cid, NoItem, "k_delete")

\* another session's open transaction has inserted a transaction that
\* references category cid
CategoryLocked(s, cid) ==
    \E o \in Sessions \ {s} :
        /\ sess[o].pending = "insert"
        /\ sess[o].obj.category_id = cid

\* a deletion that removes the transactions of the category with it
CategoryDeleteCascade(s) ==
    LET cid == sess[s].target
    IN  /\ sess[s].pc = "k_delete"
        /\ ~CategoryLocked(s, cid)
        /\ IF \E b \in DOMAIN budgets : budgets[b].category_id = cid
             THEN Raise(s, "IntegrityError")
             ELSE /\ transactions' =
                        [t \in {x \in DOMAIN transactions :
                                  transactions[x].category_id # cid} |->
                            transactions[t]]
                  /\ categories' = [k \in DOMAIN categories \ {cid} |->
                                       categories[k]]
                  /\ Finish(s, "204")
                  /\ UNCHANGED <<accounts, accSeq, txnSeq, pre, ops, limit,
                                 users, catSeq, budgets, budSeq>>

\* crud.py lines 121-122: the flush takes the category off the transactions
\* that have it (Category.transactions has no delete cascade), deletes the
\* row and commits; budgets.category_id is a foreign key without cascade
CategoryDeleteRow(s) ==
    LET cid == sess[s].target
    IN  /\ sess[s].pc = "k_delete"
        /\ ~CategoryLocked(s, cid)
        /\ IF \E b \in DOMAIN budgets : budgets[b].category_id = cid
             THEN Raise(s, "IntegrityError")
             ELSE /\ transactions' =
                        [t \in DOMAIN transactions |->
                            IF transactions[t].category_id = cid
                              THEN [transactions[t] EXCEPT
                                       !.category_id = NoCategory]
                              ELSE transactions[t]]
                  /\ categories' = [k \in DOMAIN categories \ {cid} |->
                                       categories[k]]
                  /\ Finish(s, "204")
                  /\ UNCHANGED <<accounts, accSeq, txnSeq, pre, ops, limit,
                                 users, catSeq, budgets, budSeq>>

\* ---- budgets -------------------------------------------------------------
\* the body of a budget request: category_id and amount
BudgetCreates == [category_id : NamedCategories, amount : {1}]

BudgetUpdates ==
    {[keys |-> k.keys \cup a.keys, category_id |-> k.value,
      amount |-> a.value] :
        k \in Choice("category_id", NamedCategories, NoCategory),
        a \in Choice("amount", {8}, 0)}

NamedBudgets == 1..(budSeq + 1)

\* uq_user_category_budget: no two rows of the table have the same
\* (user_id, category_id)
UqUserCategoryBudgetOff(table) == TRUE

UqUserCategoryBudget(table) ==
    \A b1, b2 \in DOMAIN table :
        (/\ table[b1].user_id = table[b2].user_id
         /\ table[b1].category_id = table[b2].category_id) => b1 = b2

\* crud.get_budget(db, budget_id, user_id): the lookup is scoped by owner
GetBudget(bid, u) == bid \in DOMAIN budgets /\ budgets[bid].user_id = u

\* crud.get_budgets with the default skip and limit
GetBudgets(u) == {b \in DOMAIN budgets : budgets[b].user_id = u}

\* main.py lines 420-422
BeginCreateBudget(s, u, r) ==
    IF ~GetCategory(r.category_id)
        THEN Answer(s, "create_budget", u, 0, "404", {})
        ELSE Held(s, "create_budget", u, 0,
                  [NoItem EXCEPT !.category_id = r.category_id,
                                 !.amount = r.amount],
                  "b_insert")

\* crud.create_budget(db, budget, user_id): the budgets table with the new
\* row, or None when the storage rejects the row for its (user_id,
\* category_id): the rejection is an expected outcome, not a failure
CreateBudget(u, item) ==
    LET row == [user_id |-> u, category_id |-> item.category_id,
                amount |-> item.amount]
        new == (budSeq + 1 :> row) @@ budgets
    IN  IF UqUserCategoryBudget(new) THEN Some(new) ELSE None

\* a handler that lets the rejection of create_budget escape
BudgetInsertUnhandled(s) ==
    LET created == CreateBudget(sess[s].user, sess[s].item)
    IN  /\ sess[s].pc = "b_insert"
        /\ IF \/ created = None
              \/ sess[s].item.category_id \notin DOMAIN categories
             THEN Raise(s, "IntegrityError")
             ELSE /\ budSeq' = budSeq + 1
                  /\ budgets' = created[1]
                  /\ sess' = [sess EXCEPT ![s] =
                          Closed([sess[s] EXCEPT !.target = budSeq + 1],
                                 "done", "201", "")]
                  /\ UNCHANGED <<accounts, transactions, accSeq, txnSeq, pre,
                                 ops, limit, users, categories, catSeq>>

\* main.py lines 425-429: None from create_budget is answered with 400
BudgetInsert(s) ==
    LET created == CreateBudget(sess[s].user, sess[s].item)
    IN  /\ sess[s].pc = "b_insert"
        /\ IF created = None
             THEN /\ Finish(s, "400")
                  /\ UNCHANGED <<accounts, transactions, accSeq, txnSeq, pre,
                                 ops, limit, catalog>>
           ELSE IF sess[s].item.category_id \notin DOMAIN categories
             THEN Raise(s, "IntegrityError")
             ELSE /\ budSeq' = budSeq + 1
                  /\ budgets' = created[1]
                  /\ sess' = [sess EXCEPT ![s] =
                          Closed([sess[s] EXCEPT !.target = budSeq + 1],
                                 "done", "201", "")]
                  /\ UNCHANGED <<accounts, transactions, accSeq, txnSeq, pre,
                                 ops, limit, users, categories, catSeq>>

\* main.py lines 446-447
ReadBudgets(s, u) == Answer(s, "read_budgets", u, 0, "200", GetBudgets(u))

\* main.py lines 463-466
ReadBudget(s, u, bid) ==
    IF GetBudget(bid, u)
        THEN Answer(s, "read_budget", u, bid, "200", {bid})
        ELSE Answer(s, "read_budget", u, bid, "404", {})

\* main.py lines 483-491
BeginUpdateBudget(s, u, bid, r) ==
    IF ~GetBudget(bid, u)
        THEN Answer(s, "update_budget", u, bid, "404", {})
    ELSE IF /\ "category_id" \in r.keys
            /\ r.category_id # NoCategory
            /\ ~GetCategory(r.category_id)
        THEN Answer(s, "update_budget", u, bid, "400", {})
        ELSE /\ StartRequest(s)
             /\ sess' = [sess EXCEPT ![s] =
                     [Begun(s, "update_budget", u, 0, NoTxn)
                         EXCEPT !.pc = "b_update", !.target = bid,
                                !.item = [NoItem EXCEPT
                                            !.category_id = r.category_id,
                                            !.amount = r.amount],
                                !.dirty = Changed(budgets[bid], r)]]
             /\ UNCHANGED <<accounts, transactions, accSeq, txnSeq, limit,
                            catalog>>

\* main.py line 493, crud.update_budget: the UPDATE of the changed columns
\* and the commit, which the storage's constraints may refuse
BudgetUpdateRow(s) ==
    LET bid == sess[s].target
        new == [budgets EXCEPT
                   ![bid] = Merged(budgets[bid], sess[s].item, sess[s].dirty)]
    IN  /\ sess[s].pc = "b_update"
        /\ IF bid \notin DOMAIN budgets
             THEN Raise(s, IF sess[s].dirty = {} THEN "InvalidRequestError"
                           ELSE "StaleDataError")
           ELSE IF \/ ~UqUserCategoryBudget(new)
                   \/ new[bid].category_id \notin DOMAIN categories
             THEN Raise(s, "IntegrityError")
             ELSE /\ budgets' = new
                  /\ Finish(s, "200")
                  /\ UNCHANGED <<accounts, transactions, accSeq, txnSeq, pre,
                                 ops, limit, users, categories, catSeq,
                                 budSeq>>

\* main.py lines 509-511
BeginDeleteBudget(s, u, bid) ==
    IF ~GetBudget(bid, u)
        THEN Answer(s, "delete_budget", u, bid, "404", {})
        ELSE Held(s, "delete_budget", u, bid, NoItem, "b_delete")

\* main.py line 513, crud.delete_budget
BudgetDeleteRow(s) ==
    /\ sess[s].pc = "b_delete"
    /\ budgets' = [b \in DOMAIN budgets \ {sess[s].target} |-> budgets[b]]
    /\ Finish(s, "204")
    /\ UNCHANGED <<accounts, transactions, accSeq, txnSeq, pre, ops, limit,
                   users, categories, catSeq, budSeq>>

\* main.py lines 416-429
CreateBudgetApi(s, c, u, r) ==
    IF u # c THEN Forbidden(s, "create_budget", c, u)
    ELSE BeginCreateBudget(s, u, r)

\* main.py lines 443-447
ReadBudgetsApi(s, c, u) ==
    IF u # c THEN Forbidden(s, "read_budgets", c, u) ELSE ReadBudgets(s, u)

\* main.py lines 460-466
ReadBudgetApi(s, c, u, bid) ==
    IF u # c THEN Forbidden(s, "read_budget", c, u) ELSE ReadBudget(s, u, bid)

\* main.py lines 480-493
UpdateBudgetApi(s, c, u, bid, r) ==
    IF u # c THEN Forbidden(s, "update_budget", c, u)
    ELSE BeginUpdateBudget(s, u, bid, r)

\* main.py lines 506-513
DeleteBudgetApi(s, c, u, bid) ==
    IF u # c THEN Forbidden(s, "delete_budget", c, u)
    ELSE BeginDeleteBudget(s, u, bid)

\* ---- failures -----------------------------------------------------------
\* The statement a request is about to run fails (connection lost, request
\* cancelled): the exception leaves the handler and get_db closes the
\* session, which drops whatever it had not committed.
Fault(s) ==
    /\ sess[s].pc \in InFlight
    /\ Raise(s, "fault")

\* ------------------------------------------------------- specifications
\* the empty database; the first request can only open an account, and
\* the behaviour gets that request on top of MaxOps
FreshInit ==
    /\ accounts = <<>>
    /\ transactions = <<>>
    /\ accSeq = 0
    /\ txnSeq = 0
    /\ users = {1}
    /\ categories = <<>>
    /\ catSeq = 0
    /\ budgets = <<>>
    /\ budSeq = 0
    /\ sess = [s \in Sessions |-> IdleSession]
    /\ pre = [s \in Sessions |-> Snapshot]
    /\ ops = 0
    /\ limit = MaxOps + 1

\* the ledger with its accounts opened and no transaction recorded yet
Init ==
    /\ accounts = [a \in DOMAIN Opened |->
                      [balance |-> Opened[a], owner_id |-> 1]]
    /\ transactions = <<>>
    /\ accSeq = Len(Opened)
    /\ txnSeq = 0
    /\ users = {1}
    /\ categories = <<>>
    /\ catSeq = 0
    /\ budgets = <<>>
    /\ budSeq = 0
    /\ sess = [s \in Sessions |-> IdleSession]
    /\ pre = [s \in Sessions |-> Snapshot]
    /\ ops = 0
    /\ limit = MaxOps

Begin ==
    /\ ops < limit
    /\ \/ \E s \in Sessions, u \in users, b \in OpeningBalances :
             CreateAccount(s, u, b)
       \/ \E s \in Sessions, u \in users, a \in DOMAIN accounts,
             b \in OpeningBalances : UpdateAccount(s, u, a, b)
       \/ \E s \in Sessions, u \in users, r \in CreateRequests :
             BeginCreate(s, u, r)
       \/ \E s \in Sessions, u \in users, t \in NamedTxns,
             r \in UpdateRequests : BeginUpdate(s, u, t, r)
       \/ \E s \in Sessions, u \in users, t \in NamedTxns :
             BeginDelete(s, u, t)

Step ==
    \E s \in Sessions :
        \/ CreateFlush(s)
        \/ CreateAdjustQuery(s)
        \/ CreateAdjustWrite(s)
        \/ CreateCommit(s)
        \/ UpdateReverseQuery(s)
        \/ UpdateReverseWrite(s)
        \/ UpdateApplyQuery(s)
        \/ UpdateApplyWrite(s)
        \/ UpdateCommit(s)
        \/ DeleteReverseQuery(s)
        \/ DeleteReverseWrite(s)
        \/ DeleteRow(s)
        \/ Fault(s)

Next == Begin \/ Step

\* requests of concurrent sessions interleave between their statements
Spec == Init /\ [][Next]_vars

Quiet == \A s \in Sessions : Free(s)

\* one request at a time: a request begins only when none is in flight
SerialNext == (Quiet /\ Begin) \/ Step

SerialSpec == Init /\ [][SerialNext]_vars

\* the same requests from the empty database
FreshSpec == FreshInit /\ [][Next]_vars


\* ---- the whole API, every handler as an authenticated caller reaches it --
\* the database in use: two users with an account, a transaction and a
\* budget each, and the categories they share
ApiInit ==
    /\ users = {1, 2}
    /\ accounts = <<[balance |-> 1, owner_id |-> 1],
                    [balance |-> 8, owner_id |-> 2]>>
    /\ accSeq = 2
    /\ transactions =
          <<[amount |-> Some(1), type |-> "expense", account_id |-> 1,
             category_id |-> 1, user_id |-> 1, description |-> "a"],
            [amount |-> Some(8), type |-> "income", account_id |-> 2,
             category_id |-> NoCategory, user_id |-> 2, description |-> "a"]>>
    /\ txnSeq = 2
    /\ categories = <<[name |-> "Rent", type |-> "expense"],
                      [name |-> "Transfer", type |-> "both"]>>
    /\ catSeq = 2
    /\ budgets = <<[user_id |-> 1, category_id |-> 1, amount |-> 1],
                   [user_id |-> 2, category_id |-> 1, amount |-> 1]>>
    /\ budSeq = 2
    /\ sess = [s \in Sessions |-> IdleSession]
    /\ pre = [s \in Sessions |-> Snapshot]
    /\ ops = 0
    /\ limit = MaxOps

\* the update request that sets no field
EmptyUpdate ==
    [keys |-> {}, amount |-> None, type |-> "income",
     account_id |-> NoAccount, category_id |-> NoCategory,
     description |-> "a"]

\* update requests that set at most one field
SingleUpdates ==
    {EmptyUpdate}
        \cup {[EmptyUpdate EXCEPT !.keys = {"amount"}, !.amount = v] :
                  v \in OptAmounts}
        \cup {[EmptyUpdate EXCEPT !.keys = {"type"}, !.type = v] :
                  v \in Types}
        \cup {[EmptyUpdate EXCEPT !.keys = {"account_id"},
                                  !.account_id = v] :
                  v \in {NoAccount} \cup NamedAccounts}
        \cup {[EmptyUpdate EXCEPT !.keys = {"category_id"},
                                  !.category_id = v] :
                  v \in {NoCategory} \cup NamedCategories}
        \cup {[EmptyUpdate EXCEPT !.keys = {"description"},
                                  !.description = "b"]}

Skips == {0, 1}
Limits == {1, DefaultLimit}
Filters == {None, Some(""), Some("income"), Some("expense"), Some("both")}

\* SessionLocal() hands every request a session of its own; idle sessions
\* are alike, so a request takes the first one that is free
FirstFree(s) ==
    /\ Free(s)
    /\ s = "s2" => ~Free("s1")

ApiBegin ==
    /\ ops < limit
    /\ \E s \in Sessions, c \in users :
        /\ FirstFree(s)
        /\ \/ \E u \in Users :
               \/ \E b \in OpeningBalances : CreateAccountApi(s, c, u, b)
               \/ ReadAccountsApi(s, c, u)
               \/ \E a \in NamedAccounts : ReadAccountApi(s, c, u, a)
               \/ \E a \in NamedAccounts, b \in OpeningBalances :
                     UpdateAccountApi(s, c, u, a, b)
               \/ \E a \in NamedAccounts : DeleteAccountApi(s, c, u, a)
               \/ \E r \in CreateRequests : CreateTransactionApi(s, c, u, r)
               \/ ReadTransactionsApi(s, c, u, NoFilter)
               \/ \E t \in NamedTxns : ReadTransactionApi(s, c, u, t)
               \/ \E t \in NamedTxns, r \in SingleUpdates :
                     UpdateTransactionApi(s, c, u, t, r)
               \/ \E t \in NamedTxns : DeleteTransactionApi(s, c, u, t)
               \/ \E r \in BudgetCreates : CreateBudgetApi(s, c, u, r)
               \/ ReadBudgetsApi(s, c, u)
               \/ \E b \in NamedBudgets : ReadBudgetApi(s, c, u, b)
               \/ \E b \in NamedBudgets, r \in BudgetUpdates :
                     UpdateBudgetApi(s, c, u, b, r)
               \/ \E b \in NamedBudgets : DeleteBudgetApi(s, c, u, b)
           \/ \E r \in CategoryCreates : BeginCreateCategory(s, c, r)
           \/ \E k \in NamedCategories : ReadCategory(s, c, k)
           \/ \E skip \in Skips, lim \in Limits, f \in Filters :
                 ReadCategories(s, c, skip, lim, f)
           \/ \E k \in NamedCategories, r \in CategoryUpdates :
                 BeginUpdateCategory(s, c, k, r)
           \/ \E k \in NamedCategories : BeginDeleteCategory(s, c, k)

ApiStep ==
    \E s \in Sessions :
        \/ DeleteAccountCascade(s)
        \/ DeleteAccountRows(s)
        \/ CategoryInsert(s)
        \/ CategoryUpdateRow(s)
        \/ CategoryDeleteRow(s)
        \/ BudgetInsert(s)
        \/ BudgetUpdateRow(s)
        \/ BudgetDeleteRow(s)

ApiNext == ApiBegin \/ Step \/ ApiStep

\* the requests of concurrent callers interleave between their statements
ApiSpec == ApiInit /\ [][ApiNext]_vars

\* one request at a time
ApiSerialNext == (Quiet /\ ApiBegin) \/ Step \/ ApiStep

ApiSerialSpec == ApiInit /\ [][ApiSerialNext]_vars


\* ================================================================ claims
\* the signed contribution of a transaction row to its account: +amount
\* for income, -amount for any other type
Delta(row) == IF row.type = "income" THEN row.amount[1] ELSE 0 - row.amount[1]

Referencing(a) == {t \in DOMAIN transactions : transactions[t].account_id = a}

RECURSIVE SumDelta(_)
SumDelta(S) ==
    IF S = {} THEN 0
    ELSE LET t == CHOOSE x \in S : TRUE
         IN  Delta(transactions[t]) + SumDelta(S \ {t})

\* the request of session s is the last one begun and it is over
Latest(s) == sess[s].seq = ops /\ sess[s].pc \in {"done", "failed"}

Succeeded(s, op, result) ==
    sess[s].pc = "done" /\ sess[s].op = op /\ sess[s].result = result

Untouched(s) ==
    accounts = pre[s].accounts /\ transactions = pre[s].transactions

OthersKept(s, touched) ==
    \A a \in DOMAIN accounts \ touched :
        a \in DOMAIN pre[s].accounts
            => accounts[a].balance = pre[s].accounts[a].balance

\* ---- C1 ----------------------------------------------------------------
\* C1: in every reachable state each account's balance equals the sum,
\* over the transactions that reference it, of +amount for income and
\* -amount for any other type.
C1_BalanceIsSum ==
    \A a \in DOMAIN accounts :
        /\ \A t \in Referencing(a) : transactions[t].amount # None
        /\ accounts[a].balance = SumDelta(Referencing(a))

\* ---- C2 ----------------------------------------------------------------
\* C2: when update_transaction fails with an exception of a balance
\* adjustment, the committed tables are those of before the update.
C2_FailedUpdateRolledBack ==
    \A s \in Sessions :
        (/\ Latest(s)
         /\ sess[s].pc = "failed"
         /\ sess[s].op = "update"
         /\ sess[s].error \in {"ValueError", "TypeError"})
            => Untouched(s)

\* ---- C3 ----------------------------------------------------------------
\* the _adjust_account_balance calls of a finished request on account a,
\* in the order it made them: <<amount, type>>
Calls(s, a) ==
    LET se  == sess[s]
        old == IF se.old.account_id = a
                 THEN << <<se.old.amount, ReverseType(se.old.type)>> >>
                 ELSE <<>>
        new == IF se.obj.account_id = a
                 THEN << <<se.obj.amount, se.obj.type>> >> ELSE <<>>
    IN  IF se.op = "create" THEN new
        ELSE IF se.op = "delete" THEN old
        ELSE IF Reconciles(se.old, se.obj) THEN old \o new
        ELSE <<>>

RECURSIVE Replay(_, _)
Replay(bal, calls) ==
    IF calls = <<>> THEN bal
    ELSE Replay(Adjusted(bal, Head(calls)[1], Head(calls)[2]).balance,
                Tail(calls))

Overlapped(s1, s2) ==
    /\ s1 # s2
    /\ sess[s1].pc = "done" /\ sess[s1].result \in {"200", "201", "204"}
    /\ sess[s2].pc = "done" /\ sess[s2].result \in {"200", "201", "204"}
    /\ {sess[s1].op, sess[s2].op} \subseteq {"create", "update", "delete"}
    /\ sess[s1].tid # sess[s2].tid
    /\ sess[s1].seq + 1 = sess[s2].seq
    /\ sess[s2].seq = ops
    /\ pre[s1] = pre[s2]

\* C3: two transaction operations on different transactions that ran
\* concurrently (each began before the other committed) and have both
\* committed leave every balance as one of the two serial orders would.
C3_NoLostUpdate ==
    \A s1, s2 \in Sessions :
        Overlapped(s1, s2) =>
            \A a \in DOMAIN pre[s1].accounts :
                LET b == pre[s1].accounts[a].balance
                IN  accounts[a].balance \in
                        {Replay(Replay(b, Calls(s1, a)), Calls(s2, a)),
                         Replay(Replay(b, Calls(s2, a)), Calls(s1, a))}

\* ---- C4 ----------------------------------------------------------------
\* the update of s has committed the reversal of its old delta and has an
\* account to apply the new delta to, which it has not done
HalfUpdated(s) ==
    /\ sess[s].op = "update"
    /\ sess[s].adjusted = 1
    /\ sess[s].obj.account_id \in DOMAIN accounts
    /\ \/ sess[s].pc \in {"u_app_query", "u_app_write"}
       \/ sess[s].pc = "failed" /\ sess[s].at \in {"u_app_query", "u_app_write"}

\* the delete of s has committed its reversal and the row is still there
HalfDeleted(s) ==
    /\ sess[s].op = "delete"
    /\ sess[s].adjusted = 1
    /\ sess[s].tid \in DOMAIN transactions
    /\ \/ sess[s].pc = "d_delete"
       \/ sess[s].pc = "failed" /\ sess[s].at = "d_delete"

\* C4: no committed state shows an update whose old delta is reversed and
\* whose new delta is not applied, or a delete whose reversal is applied
\* while the row exists, neither while the request runs nor after it was
\* cancelled or crashed.
C4_NoPartialState ==
    \A s \in Sessions : ~HalfUpdated(s) /\ ~HalfDeleted(s)


\* ---- C5 ----------------------------------------------------------------
\* the update of s went through and moved its transaction from one account
\* to another one
Moved(s) ==
    /\ Latest(s)
    /\ Succeeded(s, "update", "200")
    /\ sess[s].old.account_id # sess[s].obj.account_id
    /\ sess[s].old.account_id \in DOMAIN pre[s].accounts
    /\ sess[s].obj.account_id \in DOMAIN pre[s].accounts

\* C5: an update that moves a transaction from account A1 to another
\* account A2 subtracts the old signed delta from A1's balance, adds the
\* new signed delta to A2's balance and leaves every other balance as it
\* was, also when amount or type change with it.
C5_MoveReconciles ==
    \A s \in Sessions :
        Moved(s) =>
            LET a1 == sess[s].old.account_id
                a2 == sess[s].obj.account_id
            IN  /\ accounts[a1].balance =
                       FSub(pre[s].accounts[a1].balance, Delta(sess[s].old))
                /\ accounts[a2].balance =
                       FAdd(pre[s].accounts[a2].balance, Delta(sess[s].obj))
                /\ OthersKept(s, {a1, a2})

\* a move that also changed amount and type, with a third account around
C5_Witness ==
    \E s \in Sessions :
        /\ Moved(s)
        /\ sess[s].old.amount # sess[s].obj.amount
        /\ sess[s].old.type # sess[s].obj.type
        /\ DOMAIN accounts \ {sess[s].old.account_id, sess[s].obj.account_id}
              # {}
        /\ accounts[sess[s].obj.account_id].balance
              # pre[s].accounts[sess[s].obj.account_id].balance

\* ---- C6 ----------------------------------------------------------------
\* the update of s went through, kept the account and changed amount or type
Repriced(s) ==
    /\ Latest(s)
    /\ Succeeded(s, "update", "200")
    /\ sess[s].old.account_id = sess[s].obj.account_id
    /\ sess[s].old.account_id \in DOMAIN pre[s].accounts
    /\ \/ sess[s].old.amount # sess[s].obj.amount
       \/ sess[s].old.type # sess[s].obj.type

\* C6: an update of amount or type on the same account changes that
\* account's balance by exactly (new signed delta - old signed delta) and
\* no other balance.
C6_SameAccountNetDelta ==
    \A s \in Sessions :
        Repriced(s) =>
            LET a == sess[s].obj.account_id
            IN  /\ accounts[a].balance =
                       pre[s].accounts[a].balance
                           + (Delta(sess[s].obj) - Delta(sess[s].old))
                /\ OthersKept(s, {a})

\* ---- C7 ----------------------------------------------------------------
SameBalanceFields(old, new) ==
    /\ old.amount = new.amount
    /\ old.type = new.type
    /\ old.account_id = new.account_id

\* C7: no step of an update request that changes none of amount, type and
\* account_id changes an account balance.
C7_PlainUpdateKeepsBalances ==
    [][\A s \in Sessions :
          (/\ sess[s].op = "update"
           /\ sess[s].pc \in InFlight
           /\ SameBalanceFields(sess[s].old, sess[s].obj)
           /\ sess'[s] # sess[s])
              => accounts' = accounts]_vars

\* an update of the description alone went through and is stored
C7_Witness ==
    \E s \in Sessions :
        /\ Succeeded(s, "update", "200")
        /\ SameBalanceFields(sess[s].old, sess[s].obj)
        /\ sess[s].old.description # sess[s].obj.description
        /\ sess[s].adjusted = 0
        /\ sess[s].tid \in DOMAIN transactions
        /\ transactions[sess[s].tid].description = sess[s].obj.description
        /\ accounts[sess[s].obj.account_id].balance # 0

\* ---- C8 ----------------------------------------------------------------
\* C8: a create followed, with no request in between, by the delete of the
\* transaction it created leaves the account's balance and the set of
\* transactions as they were before the create.
C8_CreateDeleteRoundTrip ==
    \A s1, s2 \in Sessions :
        (/\ Succeeded(s1, "create", "201")
         /\ Succeeded(s2, "delete", "204")
         /\ sess[s2].tid = sess[s1].tid
         /\ sess[s2].seq = sess[s1].seq + 1
         /\ Latest(s2))
            => /\ accounts[sess[s1].obj.account_id].balance =
                      pre[s1].accounts[sess[s1].obj.account_id].balance
               /\ transactions = pre[s1].transactions

\* ---- C9 ----------------------------------------------------------------
\* the create of s got its row flushed and then failed in the balance
\* adjustment
AdjustFailedAfterFlush(s) ==
    /\ Latest(s)
    /\ sess[s].pc = "failed"
    /\ sess[s].op = "create"
    /\ sess[s].at \in {"c_adj_query", "c_adj_write"}
    /\ sess[s].tid # 0

\* C9: when the balance adjustment of create_user_transaction fails after
\* the row was flushed, the row is not stored and no balance has changed.
C9_FailedCreateLeavesNothing ==
    \A s \in Sessions :
        AdjustFailedAfterFlush(s) =>
            /\ sess[s].tid \notin DOMAIN transactions
            /\ Untouched(s)

\* a create with a type that is neither income nor expense, after another
\* transaction was stored
C9_Witness ==
    \E s \in Sessions :
        /\ AdjustFailedAfterFlush(s)
        /\ sess[s].error = "ValueError"
        /\ sess[s].obj.type \notin ValidTypes
        /\ transactions # <<>>

\* ---- C10 ---------------------------------------------------------------
\* C10: a delete request that is over either has removed the row and taken
\* the row's signed delta out of the balance, or has left the row and the
\* balances as they were.
C10_DeleteAllOrNothing ==
    \A s \in Sessions :
        (Latest(s) /\ sess[s].op = "delete" /\ sess[s].result # "404")
            => \/ Untouched(s)
               \/ /\ sess[s].tid \notin DOMAIN transactions
                  /\ LET a == sess[s].obj.account_id
                     IN  a \in DOMAIN accounts =>
                            accounts[a].balance =
                                FSub(pre[s].accounts[a].balance,
                                     Delta(sess[s].obj))

\* ---- C11 ---------------------------------------------------------------
\* the request that session s begins in this step
Begins(s) == ops' = ops + 1 /\ sess'[s].seq = ops'

\* the create request that s begins fails one of the handler's
\* verifications, judged on the tables as they are
CreateUnverified(s) ==
    LET se == sess'[s]
    IN  \/ se.caller # se.user
        \/ se.obj.account_id \notin DOMAIN accounts
        \/ accounts[se.obj.account_id].owner_id # se.user
        \/ /\ se.obj.category_id # NoCategory
           /\ se.obj.category_id \notin DOMAIN categories

\* C11: a create-transaction request whose verification fails (path user
\* other than the caller, account missing or not the caller's, category id
\* given and missing) is rejected with 403 or 404, inserts no transaction
\* row and changes no account.
C11_RejectedCreateChangesNothing ==
    [][\A s \in Sessions :
          (Begins(s) /\ sess'[s].op = "create" /\ CreateUnverified(s))
              => /\ sess'[s].pc = "done"
                 /\ sess'[s].result \in {"403", "404"}
                 /\ transactions' = transactions
                 /\ txnSeq' = txnSeq
                 /\ accounts' = accounts]_vars

\* a create on the caller's own account with a category id that does not
\* exist has been turned down
C11_Witness ==
    \E s \in Sessions :
        /\ Succeeded(s, "create", "404")
        /\ sess[s].caller = sess[s].user
        /\ GetAccount(sess[s].obj.account_id, sess[s].user)
        /\ sess[s].obj.category_id # NoCategory
        /\ sess[s].obj.category_id \notin DOMAIN categories
        /\ transactions # <<>>

\* ---- C12 ---------------------------------------------------------------
AccountById == {"read_account", "update_account", "delete_account"}
TransactionById == {"read_transaction", "update", "delete"}
BudgetById == {"read_budget", "update_budget", "delete_budget"}

\* the id that the request recorded in se names in its path
NamedId(se) == IF se.op \in {"update", "delete"} THEN se.tid ELSE se.target

\* the owners of the stored rows of the kind of resource that se names
OwnersOf(se) ==
    IF se.op \in AccountById
        THEN [a \in DOMAIN accounts |-> accounts[a].owner_id]
    ELSE IF se.op \in TransactionById
        THEN [t \in DOMAIN transactions |-> transactions[t].user_id]
        ELSE [b \in DOMAIN budgets |-> budgets[b].user_id]

\* se names a row that another user owns
Foreign(se) ==
    /\ NamedId(se) \in DOMAIN OwnersOf(se)
    /\ OwnersOf(se)[NamedId(se)] # se.user

\* se names an id that no row has
Missing(se) == NamedId(se) \notin DOMAIN OwnersOf(se)

\* C12: a request by id for an account, a transaction or a budget that
\* another user owns, made under the caller's own user id, is answered as
\* the same request for an id that does not exist: 404, never 403, with no
\* row returned and nothing changed.
C12_ForeignIsNotFound ==
    [][\A s \in Sessions :
          (/\ Begins(s)
           /\ sess'[s].op \in AccountById \cup TransactionById \cup BudgetById
           /\ sess'[s].caller = sess'[s].user
           /\ Foreign(sess'[s]) \/ Missing(sess'[s]))
              => /\ sess'[s].pc = "done"
                 /\ sess'[s].result = "404"
                 /\ sess'[s].rows = {}
                 /\ sess'[s].obj = NoTxn
                 /\ UNCHANGED <<accounts, transactions, budgets>>]_vars

\* user 1 has asked to delete an account of user 2
C12_Witness ==
    \E s \in Sessions :
        /\ Succeeded(s, "delete_account", "404")
        /\ sess[s].caller = sess[s].user
        /\ Foreign(sess[s])
        /\ accounts[sess[s].target].balance # 0

\* ---- C13 ---------------------------------------------------------------
\* the step is a call by caller c, under path user id u, of the account,
\* transaction or budget handler that the new record of s names, with the
\* id and the body that the record holds
CalledAs(s, c, u) ==
    LET se == sess'[s]
        op == se.op
        r  == [amount |-> se.obj.amount, type |-> se.obj.type,
               account_id |-> se.obj.account_id,
               category_id |-> se.obj.category_id,
               description |-> se.obj.description]
        b  == [category_id |-> se.item.category_id, amount |-> se.item.amount]
    IN  \/ /\ op = "create_account"
           /\ \E bal \in OpeningBalances : CreateAccountApi(s, c, u, bal)
        \/ op = "read_accounts" /\ ReadAccountsApi(s, c, u)
        \/ op = "read_account" /\ ReadAccountApi(s, c, u, se.target)
        \/ /\ op = "update_account"
           /\ \E bal \in OpeningBalances :
                 UpdateAccountApi(s, c, u, se.target, bal)
        \/ op = "delete_account" /\ DeleteAccountApi(s, c, u, se.target)
        \/ op = "create" /\ CreateTransactionApi(s, c, u, r)
        \/ op = "read_transactions" /\ ReadTransactionsApi(s, c, u, NoFilter)
        \/ op = "read_transaction" /\ ReadTransactionApi(s, c, u, se.target)
        \/ /\ op = "update"
           /\ \E q \in SingleUpdates : UpdateTransactionApi(s, c, u, se.tid, q)
        \/ op = "delete" /\ DeleteTransactionApi(s, c, u, se.tid)
        \/ op = "create_budget" /\ CreateBudgetApi(s, c, u, b)
        \/ op = "read_budgets" /\ ReadBudgetsApi(s, c, u)
        \/ op = "read_budget" /\ ReadBudgetApi(s, c, u, se.target)
        \/ /\ op = "update_budget"
           /\ \E q \in BudgetUpdates : UpdateBudgetApi(s, c, u, se.target, q)
        \/ op = "delete_budget" /\ DeleteBudgetApi(s, c, u, se.target)

\* the request of s was answered 403 and holds nothing of the tables
Refused(s) ==
    /\ sess'[s].pc = "done"
    /\ sess'[s].result = "403"
    /\ sess'[s].cache = NoCache
    /\ sess'[s].rows = {}
    /\ sess'[s].obj = NoTxn
    /\ sess'[s].old = NoTxn
    /\ UNCHANGED <<accounts, transactions, budgets, accSeq, txnSeq, budSeq>>

\* C13: every account, transaction and budget handler called with a path
\* user id other than the caller's id answers 403, and has neither read nor
\* changed an account, a transaction or a budget.
C13_MismatchIsForbidden ==
    [][\A s \in Sessions :
          Begins(s) =>
              \A c \in users \ {sess'[s].user} :
                  Refused(s) \/ ~CalledAs(s, c, sess'[s].user)]_vars

\* a user has asked, under the id of a user who has transactions, to
\* delete a transaction
C13_Witness ==
    \E s \in Sessions :
        /\ Succeeded(s, "delete", "403")
        /\ sess[s].caller # sess[s].user
        /\ sess[s].caller \in users
        /\ GetTransactions(sess[s].user, NoFilter) # <<>>

\* ---- C14 ---------------------------------------------------------------
\* the step is the write of a balance adjustment of a transaction create,
\* update or delete
AdjustmentStep ==
    \E s \in Sessions :
        /\ sess[s].pc \in {"c_adj_write", "u_rev_write", "u_app_write",
                           "d_rev_write"}
        /\ sess'[s].adjusted = sess[s].adjusted + 1

\* C14: the balance of an account changes only in the balance adjustment
\* of a transaction create, update or delete; in particular no account
\* update, whatever its fields, changes it.
C14_OnlyAdjustmentsChangeBalance ==
    [][\A a \in DOMAIN accounts \cap DOMAIN accounts' :
          accounts'[a].balance # accounts[a].balance => AdjustmentStep]_vars

\* ---- C15 ---------------------------------------------------------------
\* the budgets of user u for category cid
BudgetsOf(u, cid) ==
    {b \in DOMAIN budgets :
        budgets[b].user_id = u /\ budgets[b].category_id = cid}

\* C15: in every reachable state there is at most one budget per
\* (user_id, category_id), whatever budget creates, updates (of category_id
\* too) and deletes ran, two concurrent creates for one pair included.
C15_OneBudgetPerPair ==
    \A u \in users : \A cid \in NamedCategories :
        Cardinality(BudgetsOf(u, cid)) <= 1

\* two creates for one pair overlapped: the one that began first was
\* refused because of the row the other one stored meanwhile
C15_Witness ==
    \E s1, s2 \in Sessions :
        /\ Succeeded(s1, "create_budget", "400")
        /\ Succeeded(s2, "create_budget", "201")
        /\ sess[s1].seq < sess[s2].seq
        /\ sess[s1].user = sess[s2].user
        /\ sess[s1].item.category_id = sess[s2].item.category_id
        /\ BudgetsOf(sess[s1].user, sess[s1].item.category_id)
               = {sess[s2].target}

\* ---- C16 ---------------------------------------------------------------
\* C16: a budget create that reaches the storage while the (user, category)
\* pair already has a budget ends with the 400 "already exists" answer and
\* no exception, and leaves the budgets as they were: one row for the pair.
\* (A step in which the connection is lost is no answer of create_budget.)
C16_DuplicateBudgetIsConflict ==
    [][\A s \in Sessions :
          (/\ sess[s].pc = "b_insert"
           /\ sess'[s].pc # "b_insert"
           /\ sess'[s].error # "fault"
           /\ BudgetsOf(sess[s].user, sess[s].item.category_id) # {})
          => /\ sess'[s].pc = "done"
             /\ sess'[s].result = "400"
             /\ sess'[s].error = ""
             /\ budgets' = budgets
             /\ budSeq' = budSeq
             /\ Cardinality(BudgetsOf(sess[s].user,
                                      sess[s].item.category_id)) = 1]_vars

\* the second of two serial creates for a pair was refused, the budget of
\* the first is the one row of the pair
C16_Witness ==
    \E s \in Sessions :
        /\ Succeeded(s, "create_budget", "400")
        /\ sess[s].at = "b_insert"
        /\ \E b \in BudgetsOf(sess[s].user, sess[s].item.category_id) :
              b > 2

\* ---- C17 ---------------------------------------------------------------
\* the stored categories that have both the name and the type of item
SamePair(item) ==
    {k \in DOMAIN categories :
        categories[k].name = item.name /\ categories[k].type = item.type}

C18_NoTwoCategoriesSharePair ==
    \A k1, k2 \in DOMAIN categories :
        (/\ categories[k1].name = categories[k2].name
         /\ categories[k1].type = categories[k2].type) => k1 = k2

\* ---- C19 ---------------------------------------------------------------
\* the request that s begins lists the categories from the first row on,
\* with a limit that no fewer rows than the table has
WideListing(s) ==
    /\ Begins(s)
    /\ sess'[s].op = "read_categories"
    /\ sess'[s].query.skip = 0
    /\ sess'[s].query.lim >= Cardinality(DOMAIN categories)

AccountDeleted(s) ==
    /\ sess[s].pc = "a_delete"
    /\ sess'[s].pc = "done"
    /\ sess'[s].result = "204"

\* C20: the step that completes delete_account removes the account and
\* leaves no transaction that references it, writes no row that it leaves,
\* and keeps the balances of the other accounts; no stored transaction has
\* the id of a deleted account afterwards.
C20_DeleteAccountRemovesItsTransactions ==
    /\ [][\A s \in Sessions :
             AccountDeleted(s)
             => LET aid == sess[s].target
                IN  /\ DOMAIN accounts' = DOMAIN accounts \ {aid}
                    /\ \A a \in DOMAIN accounts' :
                          accounts'[a].balance = accounts[a].balance
                    /\ \A t \in DOMAIN transactions' :
                          /\ t \in DOMAIN transactions
                          /\ transactions'[t] = transactions[t]
                          /\ transactions'[t].account_id # aid]_vars
    /\ [](\A s \in Sessions :
             Succeeded(s, "delete_account", "204")
             => \A t \in DOMAIN transactions :
                   transactions[t].account_id # sess[s].target)

\* an account that had a transaction was deleted, and an account with a
\* balance and a transaction of its own remains
C20_Witness ==
    \E s \in Sessions :
        /\ Succeeded(s, "delete_account", "204")
        /\ \E t \in DOMAIN pre[s].transactions :
              pre[s].transactions[t].account_id = sess[s].target
        /\ sess[s].target \notin DOMAIN accounts
        /\ \E a \in DOMAIN accounts :
              /\ accounts[a].balance # 0
              /\ \E t \in DOMAIN transactions :
                    transactions[t].account_id = a

\* ---- C21 ---------------------------------------------------------------
\* session s, in the middle of an update, takes a step that may write
UpdateWrites(s) ==
    /\ sess[s].op = "update"
    /\ sess[s].pc \in {"u_rev_write", "u_app_write", "u_commit"}
    /\ sess'[s] # sess[s]

\* C21: an update of a transaction changes only fields that the request
\* set: the object keeps the row's value in every other field, no other
\* field is marked for the UPDATE, and the steps of the update write no
\* other field and no other row.
C21_UnsetFieldsKept ==
    [][/\ \A s \in Sessions :
            (/\ Begins(s)
             /\ sess'[s].op = "update"
             /\ sess'[s].caller = sess'[s].user
             /\ sess'[s].tid \in DOMAIN transactions
             /\ transactions[sess'[s].tid].user_id = sess'[s].user)
            => \A r \in SingleUpdates :
                  BeginUpdate(s, sess'[s].user, sess'[s].tid, r)
                  => \A f \in Fields \ r.keys :
                        /\ sess'[s].obj[f] = transactions[sess'[s].tid][f]
                        /\ f \notin sess'[s].dirty
       /\ \A s \in Sessions :
            UpdateWrites(s)
            => \A t \in DOMAIN transactions \cap DOMAIN transactions' :
                  \A f \in DOMAIN transactions[t] :
                     transactions'[t][f] # transactions[t][f]
                     => t = sess[s].tid /\ f \in sess[s].dirty]_vars

\* an update that set the description alone stored it and left the amount,
\* the type and the account of the row as they were
C21_Witness ==
    \E s \in Sessions :
        /\ Succeeded(s, "update", "200")
        /\ sess[s].tid \in DOMAIN transactions
        /\ sess[s].tid \in DOMAIN pre[s].transactions
        /\ sess[s].obj.description # sess[s].old.description
        /\ LET now == transactions[sess[s].tid]
               was == pre[s].transactions[sess[s].tid]
           IN  /\ now.description = sess[s].obj.description
               /\ now.description # was.description
               /\ now.amount = was.amount
               /\ now.type = was.type
               /\ now.account_id = was.account_id

\* ---- C22 ---------------------------------------------------------------
\* C22: in every reachable state every stored transaction has the type
\* income or expense, whatever type strings the create and update requests
\* carried.
C22_StoredTypesValid ==
    \A t \in DOMAIN transactions : transactions[t].type \in ValidTypes

\* ---- C23 ---------------------------------------------------------------
\* C23: in every reachable state every stored transaction references an
\* existing account: its account_id is not null and names a stored account,
\* whatever updates (one that sets account_id to null too) and account
\* deletions ran.
C23_TransactionsReferenceAccounts ==
    \A t \in DOMAIN transactions :
        /\ transactions[t].account_id # NoAccount
        /\ transactions[t].account_id \in DOMAIN accounts

\* ---- C24 ---------------------------------------------------------------
\* C24: in every reachable state the account that a transaction references
\* is owned by the user that owns the transaction.
C24_AccountOwnedByTransactionOwner ==
    \A t \in DOMAIN transactions :
        transactions[t].account_id \in DOMAIN accounts
        => accounts[transactions[t].account_id].owner_id
              = transactions[t].user_id

\* a user's create that named the account of another user was refused,
\* and the transactions of that account are all its owner's
C24_Witness ==
    \E s \in Sessions :
        /\ Succeeded(s, "create", "404")
        /\ sess[s].caller = sess[s].user
        /\ sess[s].obj.account_id \in DOMAIN accounts
        /\ accounts[sess[s].obj.account_id].owner_id # sess[s].user
        /\ \E t \in DOMAIN transactions :
              transactions[t].account_id = sess[s].obj.account_id

\* ---- C25 ---------------------------------------------------------------
\* the authenticated user whose request takes this step in session s
Acting(s) == IF Begins(s) THEN sess'[s].caller ELSE sess[s].caller

\* C25: a step of a request made by user U leaves the accounts of the
\* other users, and the transactions of the other users, as they were.
C25_OtherUsersUntouched ==
    [][\A s \in Sessions :
          sess'[s] # sess[s]
          => /\ \A a \in DOMAIN accounts :
                   accounts[a].owner_id # Acting(s)
                   => a \in DOMAIN accounts' /\ accounts'[a] = accounts[a]
             /\ \A t \in DOMAIN transactions :
                   transactions[t].user_id # Acting(s)
                   => /\ t \in DOMAIN transactions'
                      /\ transactions'[t] = transactions[t]]_vars

\* ---- C26 ---------------------------------------------------------------
\* s1 deleted a transaction while s2 deleted or updated the same one: both
\* began on the same committed tables, both succeeded, and no request began
\* after them
SameTransaction(s1, s2) ==
    /\ s1 # s2
    /\ Succeeded(s1, "delete", "204")
    /\ \/ Succeeded(s2, "delete", "204")
       \/ Succeeded(s2, "update", "200")
    /\ sess[s1].tid = sess[s2].tid
    /\ sess[s1].tid \in DOMAIN pre[s1].transactions
    /\ pre[s1] = pre[s2]
    /\ {sess[s1].seq, sess[s2].seq} = {ops - 1, ops}

\* the reversal of the delta that the update of s wrote, on account a
Undo(s, a) ==
    IF sess[s].obj.account_id = a
      THEN << <<sess[s].obj.amount, ReverseType(sess[s].obj.type)>> >>
      ELSE <<>>

\* C26: when a delete of a transaction ran concurrently with another delete
\* or with an update of the same transaction and both succeeded, every
\* balance has the transaction's delta taken back once: it is the balance
\* of before with the old delta reversed once, or, beside an update, with
\* the delta replaced and the new one reversed once.
C26_DeltaReversedOnce ==
    \A s1, s2 \in Sessions :
        SameTransaction(s1, s2) =>
            \A a \in DOMAIN pre[s1].accounts \cap DOMAIN accounts :
                LET b == pre[s1].accounts[a].balance
                IN  \/ accounts[a].balance = Replay(b, Calls(s1, a))
                    \/ /\ sess[s2].op = "update"
                       /\ accounts[a].balance =
                             Replay(Replay(b, Calls(s2, a)), Undo(s2, a))

\* ---- C27 ---------------------------------------------------------------
\* amounts a request may carry: schemas.TransactionBase declares
\* amount: float, with no bound
SignedAmounts == {0 - 1, 0, 1}

\* requests on the opened ledger whose amounts are of either sign
AmountBegin ==
    /\ ops < limit
    /\ \E s \in Sessions, u \in users :
          \/ \E v \in SignedAmounts, ty \in ValidTypes, a \in DOMAIN accounts :
                BeginCreate(s, u, [amount |-> Some(v), type |-> ty,
                                   account_id |-> a,
                                   category_id |-> NoCategory,
                                   description |-> "a"])
          \/ \E t \in NamedTxns, v \in SignedAmounts :
                BeginUpdate(s, u, t, [EmptyUpdate EXCEPT !.keys = {"amount"},
                                                         !.amount = Some(v)])
          \/ \E t \in NamedTxns : BeginDelete(s, u, t)

AmountNext == (Quiet /\ AmountBegin) \/ Step

\* one request at a time, with amounts of either sign
AmountSpec == Init /\ [][AmountNext]_vars

\* C27: a create or update whose amount is zero or negative is rejected
\* and writes nothing, so that in every reachable state every stored
\* transaction has an amount greater than zero.
C27_StoredAmountsPositive ==
    \A t \in DOMAIN transactions :
        /\ transactions[t].amount # None
        /\ transactions[t].amount[1] > 0

\* ---- C28 ---------------------------------------------------------------
\* <<account_id, amount, type>> of the _adjust_account_balance call that a
\* session at this position is in
AdjustCall(se) ==
    IF se.pc = "u_rev_write"
      THEN <<se.old.account_id, se.old.amount, ReverseType(se.old.type)>>
    ELSE IF se.pc = "d_rev_write"
      THEN <<se.obj.account_id, se.obj.amount, ReverseType(se.obj.type)>>
    ELSE <<se.obj.account_id, se.obj.amount, se.obj.type>>

\* session s runs the body of _adjust_account_balance on the account it
\* found
Adjusts(s) ==
    /\ sess[s].pc \in {"c_adj_write", "u_rev_write", "u_app_write",
                       "d_rev_write"}
    /\ sess'[s].pc # sess[s].pc
    /\ sess'[s].error # "fault"

\* C28: _adjust_account_balance on an existing account fails with
\* ValueError and leaves every balance as it was when the type is neither
\* income nor expense; when it succeeds it has added the amount for income
\* and subtracted it for expense, and touched no other account.
C28_AdjustByType ==
    [][\A s \in Sessions :
          Adjusts(s)
          => LET aid    == AdjustCall(sess[s])[1]
                 amount == AdjustCall(sess[s])[2]
                 type   == AdjustCall(sess[s])[3]
             IN  /\ aid \in DOMAIN accounts
                 /\ DOMAIN accounts' = DOMAIN accounts
                 /\ \A a \in DOMAIN accounts \ {aid} :
                       accounts'[a] = accounts[a]
                 /\ type \notin ValidTypes
                    => /\ sess'[s].pc = "failed"
                       /\ sess'[s].error = "ValueError"
                       /\ accounts' = accounts
                 /\ (type = "income" /\ sess'[s].pc # "failed")
                    => accounts'[aid].balance
                          = FAdd(accounts[aid].balance, amount[1])
                 /\ (type = "expense" /\ sess'[s].pc # "failed")
                    => accounts'[aid].balance
                          = FSub(accounts[aid].balance, amount[1])]_vars

\* an adjustment was refused for its type, and the balances are those of
\* before the request
C28_Witness ==
    \E s \in Sessions :
        /\ sess[s].pc = "failed"
        /\ sess[s].error = "ValueError"
        /\ sess[s].at = "c_adj_write"
        /\ sess[s].obj.type \notin ValidTypes
        /\ accounts = pre[s].accounts

\* ---- C29 ---------------------------------------------------------------
\* the balance adjustments that the finished request of s had to make
Due(s) ==
    IF sess[s].op = "create" THEN 1
    ELSE IF sess[s].op = "update" /\ Reconciles(sess[s].old, sess[s].obj)
      THEN 2
    ELSE 0

\* C29: a create or update whose balance adjustment found no account does
\* not persist its transaction write: a request that answered with success
\* has committed every adjustment it had to make.
C29_MissingAccountStopsTheWrite ==
    \A s \in Sessions :
        (\/ Succeeded(s, "create", "201")
         \/ Succeeded(s, "update", "200"))
        => sess[s].adjusted = Due(s)

\* ---- C30 ---------------------------------------------------------------
\* update requests that name, as the new account of transaction tid of
\* user u, an account that does not exist or that u does not own
NewAccountUnknown(u, tid) ==
    {r \in SingleUpdates :
        /\ r.keys = {"account_id"}
        /\ r.account_id # NoAccount
        /\ r.account_id # transactions[tid].account_id
        /\ \/ r.account_id \notin DOMAIN accounts
           \/ accounts[r.account_id].owner_id # u}

\* C30: an update of the caller's transaction that names such an account
\* is answered 404 and leaves the transactions and the accounts as they
\* were.
C30_UnknownNewAccountIsNotFound ==
    [][\A s \in Sessions :
          (/\ Begins(s)
           /\ sess'[s].op = "update"
           /\ sess'[s].caller = sess'[s].user
           /\ sess'[s].tid \in DOMAIN transactions
           /\ transactions[sess'[s].tid].user_id = sess'[s].user)
          => \A r \in NewAccountUnknown(sess'[s].user, sess'[s].tid) :
                BeginUpdate(s, sess'[s].user, sess'[s].tid, r)
                => /\ sess'[s].pc = "done"
                   /\ sess'[s].result = "404"
                   /\ UNCHANGED <<accounts, transactions>>]_vars

\* ---- C31 ---------------------------------------------------------------
\* the update requests that supply, as account_id, the account that the
\* row already has
SameAccountUpdates(row) ==
    {[keys |-> a.keys \cup t.keys \cup k.keys \cup d.keys \cup {"account_id"},
      amount |-> a.value, type |-> t.value, account_id |-> row.account_id,
      category_id |-> k.value, description |-> d.value] :
        a \in Choice("amount", OptAmounts, None),
        t \in Choice("type", Types, "income"),
        k \in Choice("category_id", {NoCategory} \cup NamedCategories,
                     NoCategory),
        d \in Choice("description", {"b"}, "a")}

\* the same request with account_id left unset
Omitted(r) == [r EXCEPT !.keys = @ \ {"account_id"}, !.account_id = NoAccount]

\* requests on the opened ledger whose updates all supply the account the
\* transaction has
SameAccountBegin ==
    /\ ops < limit
    /\ \E s \in Sessions, u \in users :
          \/ \E r \in CreateRequests : BeginCreate(s, u, r)
          \/ \E t \in DOMAIN transactions :
                \E r \in SameAccountUpdates(transactions[t]) :
                    BeginUpdate(s, u, t, r)
          \/ \E t \in NamedTxns : BeginDelete(s, u, t)

SameAccountNext == (Quiet /\ SameAccountBegin) \/ Step

SameAccountSpec == Init /\ [][SameAccountNext]_vars

\* C31: an update that supplies the account the transaction already has
\* begins exactly as the same update without account_id does, so that the
\* two have the same effect on the row and on every balance; if it changes
\* neither the amount nor the type it goes straight to its commit, which
\* writes no balance.
C31_SameAccountIsAccountUnchanged ==
    [][\A s \in Sessions :
          /\ (/\ Begins(s)
              /\ sess'[s].op = "update"
              /\ sess'[s].tid \in DOMAIN transactions
              /\ transactions[sess'[s].tid].user_id = sess'[s].user)
             => LET u   == sess'[s].user
                    tid == sess'[s].tid
                    row == transactions[tid]
                IN  \A r \in SameAccountUpdates(row) :
                       /\ BeginUpdate(s, u, tid, r)
                             <=> BeginUpdate(s, u, tid, Omitted(r))
                       /\ (/\ BeginUpdate(s, u, tid, r)
                           /\ "amount" \in r.keys => r.amount = row.amount
                           /\ "type" \in r.keys => r.type = row.type)
                          => sess'[s].pc \in {"u_commit", "done"}
          /\ (sess[s].pc = "u_commit" /\ sess'[s] # sess[s])
             => accounts' = accounts]_vars

\* an update that supplied the account of the transaction and a new amount
\* succeeded: the transaction is on the same account, whose balance changed
C31_Witness ==
    \E s \in Sessions :
        /\ Succeeded(s, "update", "200")
        /\ sess[s].obj.account_id = sess[s].old.account_id
        /\ sess[s].obj.amount # sess[s].old.amount
        /\ sess[s].adjusted = 2
        /\ sess[s].tid \in DOMAIN transactions
        /\ transactions[sess[s].tid].account_id = sess[s].old.account_id
        /\ accounts # pre[s].accounts

\* ---- C32 ---------------------------------------------------------------
\* main.py lines 317-324: the query parameters of a listing of
\* transactions; category ids and types as the query string may carry them
ListQueries ==
    [skip : Skips, lim : Limits,
     category_id : {None} \cup {Some(k) : k \in {0} \cup NamedCategories},
     transaction_type : {None} \cup {Some(t) : t \in {""} \cup Types},
     order : {"asc", "desc"}]

\* requests on the transactions of the two users, the listings with every
\* combination of query parameters
ListBegin ==
    /\ ops < limit
    /\ \E s \in Sessions, c \in users, u \in Users :
          \/ \E r \in CreateRequests : CreateTransactionApi(s, c, u, r)
          \/ \E t \in NamedTxns, r \in SingleUpdates :
                UpdateTransactionApi(s, c, u, t, r)
          \/ \E t \in NamedTxns : DeleteTransactionApi(s, c, u, t)
          \/ \E q \in ListQueries : ReadTransactionsApi(s, c, u, q)

ListNext == (Quiet /\ ListBegin) \/ Step

ListSpec == ApiInit /\ [][ListNext]_vars

\* the transaction t satisfies the filters that the query q supplies
Satisfies(t, q) ==
    /\ q.category_id # None
          => /\ transactions[t].category_id # NoCategory
             /\ transactions[t].category_id = q.category_id[1]
    /\ q.transaction_type # None
          => transactions[t].type = q.transaction_type[1]

\* C32: a listing of a user's transactions returns only transactions of
\* that user that satisfy every filter supplied (category_id, type), and,
\* when it starts at the first row with a limit that covers the table, it
\* returns every transaction of the user that satisfies them.
C32_ListingHonoursFilters ==
    [][\A s \in Sessions :
          (/\ Begins(s)
           /\ sess'[s].op = "read_transactions"
           /\ sess'[s].result = "200")
          => LET q == sess'[s].query
                 u == sess'[s].user
             IN  /\ \A t \in sess'[s].rows :
                        /\ t \in DOMAIN transactions
                        /\ transactions[t].user_id = u
                        /\ Satisfies(t, q)
                 /\ (q.skip = 0 /\ q.lim >= Cardinality(DOMAIN transactions))
                    => \A t \in DOMAIN transactions :
                          (transactions[t].user_id = u /\ Satisfies(t, q))
                             => t \in sess'[s].rows]_vars

\* ---- C33 ---------------------------------------------------------------
\* C33: no step of a category deletion changes an account balance or
\* removes a transaction; a transaction changes at most in its category_id,
\* which goes from the deleted category to none.
C33_CategoryDeleteKeepsTransactions ==
    [][\A s \in Sessions :
          (/\ sess'[s] # sess[s]
           /\ (IF Begins(s) THEN sess'[s].op ELSE sess[s].op)
                 = "delete_category")
          => /\ accounts' = accounts
             /\ DOMAIN transactions' = DOMAIN transactions
             /\ \A t \in DOMAIN transactions :
                   \/ transactions'[t] = transactions[t]
                   \/ /\ transactions[t].category_id = sess[s].target
                      /\ transactions[t].category_id # NoCategory
                      /\ transactions'[t] =
                            [transactions[t] EXCEPT
                                !.category_id = NoCategory]]_vars

\* a category that a transaction referenced was deleted: the transaction
\* is still stored, without category, and no balance has changed
C33_Witness ==
    \E s \in Sessions :
        /\ Succeeded(s, "delete_category", "204")
        /\ sess[s].target \notin DOMAIN categories
        /\ accounts = pre[s].accounts
        /\ \E t \in DOMAIN transactions :
              /\ t \in DOMAIN pre[s].transactions
              /\ pre[s].transactions[t].category_id = sess[s].target
              /\ transactions[t] =
                    [pre[s].transactions[t] EXCEPT
                        !.category_id = NoCategory]

\* ---- C34 ---------------------------------------------------------------
\* the next statement of the request in session s runs and returns
Proceed(s) ==
    \/ CreateFlush(s)
    \/ CreateAdjustQuery(s)
    \/ CreateAdjustWrite(s)
    \/ CreateCommit(s)
    \/ UpdateReverseQuery(s)
    \/ UpdateReverseWrite(s)
    \/ UpdateApplyQuery(s)
    \/ UpdateApplyWrite(s)
    \/ UpdateCommit(s)
    \/ DeleteReverseQuery(s)
    \/ DeleteReverseWrite(s)
    \/ DeleteRow(s)
    \/ DeleteAccountCascade(s)
    \/ DeleteAccountRows(s)
    \/ CategoryInsert(s)
    \/ CategoryUpdateRow(s)
    \/ CategoryDeleteRow(s)
    \/ BudgetInsert(s)
    \/ BudgetUpdateRow(s)
    \/ BudgetDeleteRow(s)

\* the user whose clients make the requests
LiveUsers == {1}

\* the requests of one user, from two clients, on the user's own rows and
\* on the categories, whose handlers run more than one statement on their
\* session
LiveBegin ==
    /\ ops < limit
    /\ \E s \in Sessions, u \in LiveUsers :
        /\ FirstFree(s)
        /\ \/ \E a \in NamedAccounts : DeleteAccountApi(s, u, u, a)
           \/ \E r \in CreateRequests : CreateTransactionApi(s, u, u, r)
           \/ \E t \in NamedTxns, r \in SingleUpdates :
                 UpdateTransactionApi(s, u, u, t, r)
           \/ \E t \in NamedTxns : DeleteTransactionApi(s, u, u, t)
           \/ \E r \in BudgetCreates : CreateBudgetApi(s, u, u, r)
           \/ \E b \in NamedBudgets, r \in BudgetUpdates :
                 UpdateBudgetApi(s, u, u, b, r)
           \/ \E b \in NamedBudgets : DeleteBudgetApi(s, u, u, b)
           \/ \E r \in CategoryCreates : BeginCreateCategory(s, u, r)
           \/ \E k \in NamedCategories, r \in CategoryUpdates :
                 BeginUpdateCategory(s, u, k, r)
           \/ \E k \in NamedCategories : BeginDeleteCategory(s, u, k)

LiveNext == LiveBegin \/ Step \/ ApiStep

\* the concurrent requests, where a handler that can run its next statement
\* does run it: the server runs every request it has accepted to its end,
\* and the database answers every statement that waits for no lock
LiveSpec ==
    /\ ApiInit
    /\ [][LiveNext]_vars
    /\ \A s \in Sessions : WF_vars(Proceed(s))

\* the session of s is closed: the request is over and the session holds
\* no object and no pending change
SessionClosed(s) ==
    /\ sess[s].pc \in {"done", "failed"}
    /\ sess[s].pending = "none"
    /\ sess[s].dirty = {}
    /\ sess[s].cache = NoCache

\* C34: the session of every request in flight is eventually closed,
\* whether the request completes or fails, and the step on which a request
\* fails leaves the stored tables as they were: what the request had not
\* committed is dropped with its session.
C34_SessionsAreClosed ==
    /\ \A s \in Sessions :
          [](sess[s].pc \in InFlight => <>SessionClosed(s))
    /\ [][\A s \in Sessions :
             (sess[s].pc \in InFlight /\ sess'[s].pc = "failed")
             => /\ SessionClosed(s)'
                /\ UNCHANGED <<accounts, transactions, categories,
                               budgets>>]_vars

\* a create failed after its row was flushed: the session is closed and
\* the row is not stored, while the other session completed a request
C34_Witness ==
    \E s \in Sessions, o \in Sessions :
        /\ o # s
        /\ sess[s].pc = "failed"
        /\ sess[s].op = "create"
        /\ sess[s].at \in {"c_adj_query", "c_adj_write", "c_commit"}
        /\ sess[s].tid # 0
        /\ sess[s].tid \notin DOMAIN transactions
        /\ SessionClosed(s)
        /\ sess[o].pc = "done"
        /\ SessionClosed(o)

====
